---------------------------- MODULE Spec2Model ----------------------------
(***************************************************************************)
(* GuideDog: the inference gateway (src/server/index.js) and the client    *)
(* interaction / narration state machine (src/public/app.js).              *)
(*                                                                         *)
(* SpecServer is the server: /api/infer requests, the two per-session      *)
(* promise chains (detectQueue, viQueue) and the lazily connected VI       *)
(* endpoint.                                                               *)
(*                                                                         *)
(* SpecClient is the page: pointer / click / dblclick handlers, the three  *)
(* timers, the async functions doDetect, doDetailedVI, enterAutoRepeat and *)
(* exitAutoRepeat as processes suspended at their awaits, and the speech   *)
(* chain.  Handlers run to completion: a timer, an input event or an       *)
(* external completion is taken only when no promise continuation is       *)
(* runnable, and a click (dblclick) is dispatched right behind the         *)
(* pointerup (click) that produces it.  Time is not measured; the two      *)
(* orderings that 260 ms < 650 ms and 260 ms < the browser's double-click  *)
(* interval force are kept as guards.                                      *)
(***************************************************************************)
EXTENDS Naturals, Integers, Sequences, FiniteSets, TLC

\* ---------------------------------------------------------------- bounds
\* Number of /api/infer requests that arrive.
NReq == 3
\* Largest number of people in an inference response.
MaxCount == 4
\* Longest stream of result frames handed to readBestResult.
MaxFrames == 3
\* Longest objects list of a frame of that stream.
MaxFrameObjects == 2
\* Longest objects list of the best frame handed to the detect pass.
MaxObjects == 3
\* Termination signals delivered to the process (SIGINT and SIGTERM).
MaxSignals == 2
\* Largest coordinate, width and source width handed to leftCenterRight.
MaxPixel == 10

\* ---------------------------------------------------------------- constants
\* The confidence threshold 0.35, in hundredths (index.js:329).
MinConfidence == 35
\* The user starts no new press, and no interval tick is taken, while this many
\* utterances are queued or owed by running async functions.
MaxBacklog == 2
\* The user starts no new press while this many intervals are armed.
MaxIntervals == 2

VARIABLES
  \* ---- server (src/server/index.js)
  req,            \* per request: position in the /api/infer handler and its response
  queue,          \* detectQueue / viQueue: the promise the next operation is chained on
  prom,           \* per session, the promises created by runDetectExclusive / runVIExclusive
  viEndpoint,     \* "null" or "set"
  viConfigured,   \* whether changePop(VI_POP) has succeeded on viEndpoint
  call,           \* a helper of index.js being evaluated on its own: arguments, locals, result
  sd,             \* the shutdown() invocations and whether the process has exited
  \* ---- client (src/public/app.js)
  stream,             \* app.js:8, FALSE for null
  busy,               \* app.js:9
  autoRepeatOn,       \* app.js:12
  autoTimer,          \* app.js:13, 0 for null, else an interval id
  clickTimer,         \* app.js:17, 0 for null, else a timeout id
  longPressTimer,     \* app.js:22, 0 for null, else a timeout id
  longPressTriggered, \* app.js:23
  lastAutoKey,        \* app.js:26, <<>> for null
  introSpoken,        \* app.js:29
  introJustPlayed,    \* app.js:31
  speechChain,        \* app.js:45, the id of the promise it holds, 0 once resolved
  \* ---- the browser
  autoLive,       \* ids of the intervals set and not cleared
  tapLive,        \* ids of the pending-tap timeouts set, not cleared, not fired
  longLive,       \* ids of the long-press timeouts set, not cleared, not fired
  utter,          \* utterances enqueued and not ended, in enqueue order
  procs,          \* the suspended async functions
  videoReady,     \* video.videoWidth and videoHeight are non-zero
  metaDue,        \* a loadedmetadata event is on its way
  phase,          \* the physical control: "idle", "down", "clickdue", "dbldue"
  clickRun,       \* 1 while the browser counts the next click as a second click
  \* ---- history, read by the properties only
  last,           \* the handler that ran last and the calls it made
  pressLP,        \* the long-press timer expired during the latest press
  presses,        \* presses so far: 0, 1, 2, or 3 for three and more
  prevKey,        \* the key of the latest auto cycle completed since the activation
  reactiv         \* "off" once deactivated, "armed" from the reactivation that follows
                  \* until an auto cycle starts

serverVars == <<req, queue, prom, viEndpoint, viConfigured, call, sd>>

clientVars == <<stream, busy, autoRepeatOn, autoTimer, clickTimer, longPressTimer,
                longPressTriggered, lastAutoKey, introSpoken, introJustPlayed,
                speechChain, autoLive, tapLive, longLive, utter, procs, videoReady,
                metaDue, phase, clickRun, last, pressLP, presses, prevKey, reactiv>>

vars == <<serverVars, clientVars>>

Reqs == 1..NReq
Sessions == {"detect", "vi"}
Modes == {"detect", "vi"}

\* ================================================================ server
\* A promise of a session's chain.  st: "pending" (its callback has not been
\* called), "connect" / "changePop" / "process" (the operation is executing, at
\* that await), "fulfilled", "rejected".  began: the operation was called.
\* err: the request whose upstream call produced the rejection reason.
Settled(p) == p.st \in {"fulfilled", "rejected"}
Executing(p) == p.st \in {"connect", "changePop", "process"}

\* Promise 0 is the initial Promise.resolve().
PromState(s, k) == IF k = 0 THEN "fulfilled" ELSE prom[s][k].st
PromErr(s, k) == IF k = 0 THEN 0 ELSE prom[s][k].err

\* detectQueue.then(fn, fn): fn is the reaction to both outcomes.
OnlyOnFulfilled(st) == st = "fulfilled"
CallsFn(st) == st \in {"fulfilled", "rejected"}

NewPromise(s, r) ==
  [req |-> r, parent |-> queue[s], st |-> "pending", began |-> FALSE, err |-> 0]

\* A plausible slip: the chained promise is returned but not stored back.
runExclusiveNoStore(s, r) ==
  /\ prom' = [prom EXCEPT ![s] = Append(@, NewPromise(s, r))]
  /\ queue' = queue

\* runDetectExclusive / runVIExclusive: queue = queue.then(fn, fn); return queue
runExclusive(s, r) ==
  /\ prom' = [prom EXCEPT ![s] = Append(@, NewPromise(s, r))]
  /\ queue' = [queue EXCEPT ![s] = Len(prom[s]) + 1]

\* A plausible slip: the file is checked inside the detect operation.
noFileAfterSubmit(r, m) ==
  /\ req' = [req EXCEPT ![r] = [@ EXCEPT !.pc = "done", !.mode = m, !.file = FALSE,
                                         !.status = 400]]
  /\ runExclusive("detect", r)

\* if (!req.file) return res.status(400).json({ error: "No file uploaded" })
noFile(r, m) ==
  /\ req' = [req EXCEPT ![r] = [@ EXCEPT !.pc = "done", !.mode = m, !.file = FALSE,
                                         !.status = 400]]
  /\ UNCHANGED <<queue, prom>>

\* The request's handler up to its first await.
Arrive(r) ==
  /\ req[r].pc = "new"
  /\ \A q \in 1..(r - 1) : req[q].pc # "new"    \* requests are numbered as they arrive
  /\ \E m \in Modes, hasFile \in BOOLEAN :
       IF ~hasFile
         THEN noFile(r, m)
         ELSE /\ req' = [req EXCEPT ![r] = [@ EXCEPT !.pc = "detect", !.mode = m,
                                                      !.await = Len(prom["detect"]) + 1]]
              /\ runExclusive("detect", r)
  /\ UNCHANGED <<viEndpoint, viConfigured, call, sd, clientVars>>

\* A plausible slip: the cached session is not looked at.
connectVIUncached(ep) == "connect"

\* connectVI up to its first await: if (viEndpoint) return viEndpoint
connectVI(ep) == IF ep = "null" THEN "connect" ELSE "process"

\* A plausible slip: one chain for both sessions, so that an operation also
\* waits for the operation in flight on the other session.
parentSettledAllIdle(s, k) ==
  /\ PromState(s, prom[s][k].parent) \in {"fulfilled", "rejected"}
  /\ \A t \in Sessions : \A j \in 1..Len(prom[t]) : ~Executing(prom[t][j])

\* detectQueue and viQueue are separate chains: the reaction of a promise
\* depends on the promise it was chained on and on nothing else.
parentSettled(s, k) == PromState(s, prom[s][k].parent) \in {"fulfilled", "rejected"}

\* The reaction job of promise k: its parent has settled.
React(s, k) ==
  /\ k \in 1..Len(prom[s])
  /\ prom[s][k].st = "pending"
  /\ parentSettled(s, k)
  /\ IF CallsFn(PromState(s, prom[s][k].parent))
       THEN \* fn starts: connectDetect() returns the cached endpoint; connectVI()
            \* returns the cached one or starts connecting
            prom' = [prom EXCEPT ![s][k] =
                       [@ EXCEPT !.began = TRUE,
                                 !.st = IF s = "vi" THEN connectVI(viEndpoint)
                                                   ELSE "process"]]
       ELSE \* no handler for this outcome: the promise adopts it
            prom' = [prom EXCEPT ![s][k] =
                       [@ EXCEPT !.st = PromState(s, prom[s][k].parent),
                                 !.err = PromErr(s, prom[s][k].parent)]]
  /\ UNCHANGED <<req, queue, viEndpoint, viConfigured, call, sd, clientVars>>

\* connectVI: EyePop.workerEndpoint(...).connect() settles.
ConnectDone(k) ==
  /\ k \in 1..Len(prom["vi"])
  /\ prom["vi"][k].st = "connect"
  /\ \E ok \in BOOLEAN :
       IF ok
         THEN /\ viEndpoint' = "set"
              /\ prom' = [prom EXCEPT !["vi"][k].st = "changePop"]
         ELSE /\ viEndpoint' = viEndpoint
              /\ prom' = [prom EXCEPT !["vi"][k] =
                            [@ EXCEPT !.st = "rejected", !.err = prom["vi"][k].req]]
  /\ UNCHANGED <<req, queue, viConfigured, call, sd, clientVars>>

\* connectVI: viEndpoint.changePop(VI_POP) settles.
ChangePopDone(k) ==
  /\ k \in 1..Len(prom["vi"])
  /\ prom["vi"][k].st = "changePop"
  /\ \E ok \in BOOLEAN :
       IF ok
         THEN /\ viConfigured' = TRUE
              /\ prom' = [prom EXCEPT !["vi"][k].st = "process"]
         ELSE /\ viConfigured' = viConfigured
              /\ prom' = [prom EXCEPT !["vi"][k] =
                            [@ EXCEPT !.st = "rejected", !.err = prom["vi"][k].req]]
  /\ UNCHANGED <<req, queue, viEndpoint, call, sd, clientVars>>

\* ep.process(...) and the reading of its result stream settle.
ProcessDone(s, k) ==
  /\ k \in 1..Len(prom[s])
  /\ prom[s][k].st = "process"
  /\ \E ok \in BOOLEAN :
       prom' = [prom EXCEPT ![s][k] =
                  IF ok THEN [@ EXCEPT !.st = "fulfilled"]
                        ELSE [@ EXCEPT !.st = "rejected", !.err = prom[s][k].req]]
  /\ UNCHANGED <<req, queue, viEndpoint, viConfigured, call, sd, clientVars>>

\* The handler resumes after `await runDetectExclusive(...)` or
\* `await runVIExclusive(...)`.
Resume(r) ==
  /\ req[r].pc \in {"detect", "vi"}
  /\ LET s == req[r].pc
         p == prom[s][req[r].await]
     IN /\ Settled(p)
        /\ IF p.st = "rejected"
             THEN /\ req' = [req EXCEPT ![r] = [@ EXCEPT !.pc = "done", !.status = 500,
                                                          !.err = p.err]]
                  /\ UNCHANGED <<queue, prom>>
             ELSE IF s = "detect" /\ req[r].mode = "vi"
               THEN /\ req' = [req EXCEPT ![r] = [@ EXCEPT !.pc = "vi",
                                                            !.await = Len(prom["vi"]) + 1]]
                    /\ runExclusive("vi", r)
               ELSE /\ req' = [req EXCEPT ![r] = [@ EXCEPT !.pc = "done", !.status = 200]]
                    /\ UNCHANGED <<queue, prom>>
  /\ UNCHANGED <<viEndpoint, viConfigured, call, sd, clientVars>>

ServerInit ==
  /\ req = [r \in Reqs |-> [pc |-> "new", mode |-> "detect", file |-> TRUE,
                            await |-> 0, status |-> 0, err |-> 0]]
  /\ queue = [s \in Sessions |-> 0]
  /\ prom = [s \in Sessions |-> <<>>]
  /\ viEndpoint = "null"
  /\ viConfigured = FALSE

ServerNext ==
  \/ \E r \in Reqs : Arrive(r)
  \/ \E s \in Sessions, k \in 1..NReq : React(s, k)
  \/ \E k \in 1..NReq : ConnectDone(k)
  \/ \E k \in 1..NReq : ChangePopDone(k)
  \/ \E s \in Sessions, k \in 1..NReq : ProcessDone(s, k)
  \/ \E r \in Reqs : Resume(r)

\* ================================================================ shutdown
\* sd.runs holds one record per invocation of shutdown().  pc: "detect" / "vi"
\* (at that await), "done" (it called process.exit).  detect, vi: the disconnect
\* attempt on that session: "none", "pending", "ok", "failed", and for vi
\* "skipped" (viEndpoint was null at the check).  viAtSignal: the VI session
\* was established when the signal arrived.  detectEndpoint is never null here:
\* the handlers are registered after `await connectDetect()` has succeeded.
NewRun == [pc |-> "start", detect |-> "none", vi |-> "none",
           viAtSignal |-> viEndpoint = "set"]

\* The second try block up to its await, or past it to process.exit(0).
\* throws: viEndpoint.disconnect() throws before returning a promise.
viBlock(run, throws) ==
  IF viEndpoint = "set"
    THEN IF throws THEN [run EXCEPT !.pc = "done", !.vi = "failed"]
                   ELSE [run EXCEPT !.pc = "vi", !.vi = "pending"]
    ELSE [run EXCEPT !.pc = "done", !.vi = "skipped"]

\* A plausible slip: one try block around both disconnects.
detectSettledOneTry(run, ok, throws) ==
  IF ok THEN viBlock([run EXCEPT !.detect = "ok"], throws)
        ELSE [run EXCEPT !.detect = "failed", !.pc = "done"]

\* The first try block is left, by completion or through its catch.
detectSettled(run, ok, throws) ==
  viBlock([run EXCEPT !.detect = IF ok THEN "ok" ELSE "failed"], throws)

\* SIGINT or SIGTERM: shutdown() runs up to its first await.
Signal ==
  /\ ~sd.exited
  /\ Len(sd.runs) < MaxSignals
  /\ \E detectThrows \in BOOLEAN, viThrows \in BOOLEAN :
       LET run == IF detectThrows
                    THEN detectSettled(NewRun, FALSE, viThrows)
                    ELSE [NewRun EXCEPT !.pc = "detect", !.detect = "pending"]
       IN sd' = [runs |-> Append(sd.runs, run), exited |-> run.pc = "done"]
  /\ UNCHANGED <<req, queue, prom, viEndpoint, viConfigured, call, clientVars>>

\* `await detectEndpoint.disconnect()` settles.
DetectDisconnectDone(i) ==
  /\ ~sd.exited
  /\ i \in 1..Len(sd.runs)
  /\ sd.runs[i].pc = "detect"
  /\ \E ok \in BOOLEAN, viThrows \in BOOLEAN :
       LET run == detectSettled(sd.runs[i], ok, viThrows)
       IN sd' = [runs |-> [sd.runs EXCEPT ![i] = run], exited |-> run.pc = "done"]
  /\ UNCHANGED <<req, queue, prom, viEndpoint, viConfigured, call, clientVars>>

\* `await viEndpoint.disconnect()` settles; process.exit(0).
VIDisconnectDone(i) ==
  /\ ~sd.exited
  /\ i \in 1..Len(sd.runs)
  /\ sd.runs[i].pc = "vi"
  /\ \E ok \in BOOLEAN :
       sd' = [runs |-> [sd.runs EXCEPT ![i] = [@ EXCEPT !.pc = "done",
                                                       !.vi = IF ok THEN "ok" ELSE "failed"]],
              exited |-> TRUE]
  /\ UNCHANGED <<req, queue, prom, viEndpoint, viConfigured, call, clientVars>>

\* The server keeps serving until the process has exited.
Serve == ~sd.exited /\ ServerNext

ShutdownNext ==
  \/ Serve
  \/ Signal
  \/ \E i \in 1..MaxSignals : DetectDisconnectDone(i)
  \/ \E i \in 1..MaxSignals : VIDisconnectDone(i)

\* ================================================================ helpers
\* The pure helpers of index.js, each evaluated on its own on arguments drawn
\* from bounded sets.  call holds the arguments, the locals and the result.
otherVars == <<req, queue, prom, viEndpoint, viConfigured, sd>>

\* ---------------------------------------------------------------- readBestResult
\* A result frame has an objects list of some length, or none.
ObjectsFields ==
  {[defined |-> FALSE, length |-> 0]}
    \cup {[defined |-> TRUE, length |-> n] : n \in 0..MaxFrameObjects}

\* The streams: frame k of a stream carries id k.
FrameStreams ==
  UNION {[1..n -> {[id |-> k, objects |-> o] : k \in 1..n, o \in ObjectsFields}] : n \in 0..MaxFrames}

\* null
NullFrame == [id |-> 0, objects |-> [defined |-> FALSE, length |-> 0]]

\* r.objects?.length ?? 0
objectsLength(r) == IF r.objects.defined THEN r.objects.length ELSE 0

\* A plausible slip: >= lets a later frame of equal count replace the earlier.
ReplacesOnTie(n, bestN) == n >= bestN

\* if (n > bestN)
Replaces(n, bestN) == n > bestN

ReadBestResultCalls ==
  {[fn |-> "readBestResult", frames |-> fs, i |-> 0, best |-> NullFrame, bestN |-> -1,
    returned |-> FALSE] : fs \in {s \in FrameStreams : \A k \in DOMAIN s : s[k].id = k}}

\* One iteration of `for await (const r of asyncIterable)`
ReadFrame ==
  /\ call.fn = "readBestResult"
  /\ ~call.returned
  /\ call.i < Len(call.frames)
  /\ LET r == call.frames[call.i + 1]
         n == objectsLength(r)
     IN call' = [call EXCEPT !.i = @ + 1,
                             !.bestN = IF Replaces(n, call.bestN) THEN n ELSE @,
                             !.best = IF Replaces(n, call.bestN) THEN r ELSE @]
  /\ UNCHANGED <<otherVars, clientVars>>

\* The stream has ended: return best
ReadReturn ==
  /\ call.fn = "readBestResult"
  /\ ~call.returned
  /\ call.i = Len(call.frames)
  /\ call' = [call EXCEPT !.returned = TRUE]
  /\ UNCHANGED <<otherVars, clientVars>>

\* ---------------------------------------------------------------- toNum, labelLower
\* A JSON value read as a number: Number(v) is finite (num, with its value) or
\* it is not (undefined, null-like text, NaN).  Confidences are in hundredths,
\* coordinates in pixels.
Num(n) == [num |-> TRUE, v |-> n]
NotANumber == [num |-> FALSE, v |-> 0]

toNum(v, fallback) == IF v.num THEN v.v ELSE fallback

\* Strings are sequences of characters.
UpperCase == <<"A", "B", "C", "D", "E", "F", "G", "H", "I", "J", "K", "L", "M",
               "N", "O", "P", "Q", "R", "S", "T", "U", "V", "W", "X", "Y", "Z">>
LowerCase == <<"a", "b", "c", "d", "e", "f", "g", "h", "i", "j", "k", "l", "m",
               "n", "o", "p", "q", "r", "s", "t", "u", "v", "w", "x", "y", "z">>

toLowerCase(s) ==
  [i \in DOMAIN s |->
     IF \E k \in DOMAIN UpperCase : UpperCase[k] = s[i]
       THEN LowerCase[CHOOSE k \in DOMAIN UpperCase : UpperCase[k] = s[i]]
       ELSE s[i]]

RECURSIVE trimStart(_)
trimStart(s) == IF s # <<>> /\ Head(s) = " " THEN trimStart(Tail(s)) ELSE s

RECURSIVE trimEnd(_)
trimEnd(s) ==
  IF s # <<>> /\ s[Len(s)] = " " THEN trimEnd(SubSeq(s, 1, Len(s) - 1)) ELSE s

trim(s) == trimEnd(trimStart(s))

\* String(v ?? "").trim().toLowerCase()
labelLower(v) == toLowerCase(trim(IF v.defined THEN v.chars ELSE <<>>))

Person == <<"p", "e", "r", "s", "o", "n">>

\* ---------------------------------------------------------------- leftCenterRight
\* A plausible slip: the boundaries belong to left and right.
leftCenterRightInclusive(obj, sourceWidth) ==
  LET W == toNum(sourceWidth, 0)
      x == toNum(obj.x, 0)
      w == toNum(obj.width, 0)
      n == 5 * (2 * x + w)
  IN IF W = 0 THEN "center"
     ELSE IF (W > 0 /\ n <= 4 * W) \/ (W < 0 /\ n >= 4 * W) THEN "left"
     ELSE IF (W > 0 /\ n >= 6 * W) \/ (W < 0 /\ n <= 6 * W) THEN "right"
     ELSE "center"

\* frac = (x + w / 2) / W is compared with 0.4 and 0.6 as a rational:
\* frac < 0.4 iff 5 (2x + w) < 4 W when W > 0, and the other way when W < 0.
leftCenterRight(obj, sourceWidth) ==
  LET W == toNum(sourceWidth, 0)
      x == toNum(obj.x, 0)
      w == toNum(obj.width, 0)
      n == 5 * (2 * x + w)
  IN IF W = 0 THEN "center"
     ELSE IF (W > 0 /\ n < 4 * W) \/ (W < 0 /\ n > 4 * W) THEN "left"
     ELSE IF (W > 0 /\ n > 6 * W) \/ (W < 0 /\ n < 6 * W) THEN "right"
     ELSE "center"

\* x and width of an object and the frame's source width: numbers or not.
Pixels == {NotANumber} \cup {Num(n) : n \in 0..MaxPixel}
SourceWidths == {NotANumber, Num(0), Num(5), Num(MaxPixel), Num(0 - MaxPixel)}

LeftCenterRightCalls ==
  {[fn |-> "leftCenterRight", obj |-> [x |-> x, width |-> w], sourceWidth |-> sw,
    returned |-> FALSE, position |-> "none"] :
      x \in Pixels, w \in Pixels, sw \in SourceWidths}

LeftCenterRight ==
  /\ call.fn = "leftCenterRight"
  /\ ~call.returned
  /\ call' = [call EXCEPT !.returned = TRUE,
                          !.position = leftCenterRight(call.obj, call.sourceWidth)]
  /\ UNCHANGED <<otherVars, clientVars>>

\* ---------------------------------------------------------------- the detect pass
\* scorePerson, on a record of the people list: its fields are finite numbers,
\* which toNum returns as they are.  Hundredths x square pixels.
scorePerson(p) == (p.width * p.height) * p.confidence

\* A plausible slip: the threshold itself is excluded.
keepsAbove(o) ==
  labelLower(o.classLabel) = Person /\ toNum(o.confidence, 0) > MinConfidence

\* The filter of the detect pass (index.js:326-330)
keeps(o) ==
  labelLower(o.classLabel) = Person /\ toNum(o.confidence, 0) >= MinConfidence

\* The map of the detect pass (index.js:331-342)
personRecord(o, source_width) ==
  [confidence |-> toNum(o.confidence, 0),
   x |-> toNum(o.x, 0), y |-> toNum(o.y, 0),
   width |-> toNum(o.width, 0), height |-> toNum(o.height, 0),
   position |-> leftCenterRight(o, source_width),
   gender |-> "null", genderConfidence |-> 0,
   activity |-> "null", activityConfidence |-> 0]

\* Array.prototype.sort with (a, b) => scorePerson(b) - scorePerson(a): stable,
\* so p goes behind every element whose score is not smaller.
RECURSIVE insertByScore(_, _)
insertByScore(sorted, p) ==
  IF sorted = <<>> THEN <<p>>
  ELSE IF scorePerson(p) > scorePerson(Head(sorted)) THEN <<p>> \o sorted
  ELSE <<Head(sorted)>> \o insertByScore(Tail(sorted), p)

RECURSIVE sortByScore(_)
sortByScore(ps) ==
  IF ps = <<>> THEN <<>>
  ELSE insertByScore(sortByScore(SubSeq(ps, 1, Len(ps) - 1)), ps[Len(ps)])

\* Array.isArray(bestDetect?.objects) ? bestDetect.objects : []
objectsOf(best) == IF best.isNull \/ ~best.hasObjects THEN <<>> ELSE best.objects

\* bestDetect?.source_width ?? null
sourceWidthOf(best) == IF best.isNull THEN NotANumber ELSE best.source_width

detectPeople(best) ==
  LET kept == SelectSeq(objectsOf(best), keeps)
  IN sortByScore([i \in DOMAIN kept |-> personRecord(kept[i], sourceWidthOf(best))])

\* The objects the upstream service may report.
Labels ==
  {[defined |-> TRUE, chars |-> <<"P", "e", "r", "s", "o", "n">>],
   [defined |-> TRUE, chars |-> <<" ", "p", "e", "r", "s", "o", "n", " ">>],
   [defined |-> TRUE, chars |-> <<"c", "a", "r">>]}
Confidences == {Num(MinConfidence - 1), Num(MinConfidence), Num(2 * MinConfidence)}
Boxes ==
  {[x |-> Num(0), y |-> Num(0), width |-> Num(2), height |-> Num(2)],
   [x |-> Num(6), y |-> Num(1), width |-> Num(4), height |-> Num(2)]}
Objects ==
  {[classLabel |-> l, confidence |-> c, x |-> b.x, y |-> b.y, width |-> b.width,
    height |-> b.height] : l \in Labels, c \in Confidences, b \in Boxes}

\* The best frames: null, a frame without an objects list, a frame 10 pixels
\* wide with a list of objects.
BestFrames ==
  {[isNull |-> TRUE, hasObjects |-> FALSE, objects |-> <<>>, source_width |-> NotANumber],
   [isNull |-> FALSE, hasObjects |-> FALSE, objects |-> <<>>, source_width |-> Num(10)]}
    \cup {[isNull |-> FALSE, hasObjects |-> TRUE, objects |-> os, source_width |-> Num(10)] :
            os \in UNION {[1..n -> Objects] : n \in 0..MaxObjects}}

DetectCalls ==
  {[fn |-> "detect", best |-> b, stage |-> "best", people |-> <<>>] : b \in BestFrames}

\* The detect pass behind readBestResult, up to its return (index.js:322-346)
DetectPass ==
  /\ call.fn = "detect"
  /\ call.stage = "best"
  /\ call' = [call EXCEPT !.stage = "payload", !.people = detectPeople(call.best)]
  /\ UNCHANGED <<otherVars, clientVars>>

\* What the VI pass extracted: genderVal and activityVal (null when nothing
\* was recognised) and the confidences of g0 and a0 (not a number when the
\* category is absent; the value can then still come from the label text).
Findings ==
  {[gender |-> "null", genderConfidence |-> NotANumber,
    activity |-> "null", activityConfidence |-> NotANumber],
   [gender |-> "female", genderConfidence |-> Num(90),
    activity |-> "walking", activityConfidence |-> Num(80)],
   [gender |-> "male", genderConfidence |-> NotANumber,
    activity |-> "null", activityConfidence |-> Num(60)]}

withFindings(person, f) ==
  [person EXCEPT !.gender = f.gender,
                 !.genderConfidence = toNum(f.genderConfidence, 0),
                 !.activity = f.activity,
                 !.activityConfidence = toNum(f.activityConfidence, 0)]

\* A plausible slip: the findings are attached to every person.
attachToAll(people, f) == [i \in 1..Len(people) |-> withFindings(people[i], f)]

\* out = {...detectPayload, people: [...detectPayload.people]}; out.people[0] = ...
attach(people, f) ==
  IF Len(people) > 0 THEN [people EXCEPT ![1] = withFindings(people[1], f)]
                     ELSE people

\* mode !== "vi": res.json(detectPayload)
RespondDetect ==
  /\ call.fn = "detect"
  /\ call.stage = "payload"
  /\ call' = [fn |-> "detect", best |-> call.best, stage |-> "response",
              people |-> call.people, mode |-> "detect", out |-> call.people]
  /\ UNCHANGED <<otherVars, clientVars>>

\* mode === "vi": the VI pass attaches its findings; res.json(viPayload)
RespondVI ==
  /\ call.fn = "detect"
  /\ call.stage = "payload"
  /\ \E f \in Findings :
       call' = [fn |-> "detect", best |-> call.best, stage |-> "response",
                people |-> call.people, mode |-> "vi", findings |-> f,
                out |-> attach(call.people, f)]
  /\ UNCHANGED <<otherVars, clientVars>>

\* ---------------------------------------------------------------- the attribute cascade
\* What normalizeGender / normalizeActivity and findGenderActivityInText can
\* return: null or a known value.
Genders == {"null", "male", "female"}
Activities == {"null", "walking", "other"}
StageResults == [gender : Genders, activity : Activities]

\* !v for a value that is null or a non-empty string
Not(v) == v = "null"

\* A plausible slip: the later stage's value wins when it has one.
OrLater(a, b) == IF Not(b) THEN a ELSE b

\* a || b
Or(a, b) == IF Not(a) THEN b ELSE a

\* results[1]: the normalised labels of the best gender and activity classes;
\* results[2]: findGenderActivityInText(labelText); results[3]: the same on all
\* the strings of the frame.
CascadeCalls ==
  {[fn |-> "cascade", results |-> <<r1, r2, r3>>, stage |-> 0,
    genderVal |-> "null", activityVal |-> "null"] :
      r1 \in StageResults, r2 \in StageResults, r3 \in StageResults}

\* let genderVal = normalizeGender(...); let activityVal = normalizeActivity(...)
CategoryStage ==
  /\ call.fn = "cascade"
  /\ call.stage = 0
  /\ call' = [call EXCEPT !.stage = 1,
                          !.genderVal = call.results[1].gender,
                          !.activityVal = call.results[1].activity]
  /\ UNCHANGED <<otherVars, clientVars>>

\* if (!genderVal || !activityVal) { const ga = findGenderActivityInText(...);
\*   genderVal = genderVal || ga.gender; activityVal = activityVal || ga.activity }
\* for the label text (stage 1 -> 2) and then for all strings (stage 2 -> 3).
FallbackStage ==
  /\ call.fn = "cascade"
  /\ call.stage \in {1, 2}
  /\ LET ga == call.results[call.stage + 1]
     IN IF Not(call.genderVal) \/ Not(call.activityVal)
          THEN call' = [call EXCEPT !.stage = call.stage + 1,
                                    !.genderVal = Or(call.genderVal, ga.gender),
                                    !.activityVal = Or(call.activityVal, ga.activity)]
          ELSE call' = [call EXCEPT !.stage = call.stage + 1]
  /\ UNCHANGED <<otherVars, clientVars>>

\* ================================================================ client
\* What the capture, the upload and the server's answer come to: a failure, or
\* the length of the people list and the position of people[0].
People == {<<0, "null">>, <<1, "left">>, <<1, "right">>, <<3, "left">>, <<MaxCount, "left">>}

Outcomes ==
  {[ok |-> FALSE, count |-> 0, position |-> "null"]}
    \cup {[ok |-> TRUE, count |-> pp[1], position |-> pp[2]] : pp \in People}

FreshId(S) == CHOOSE n \in 1..(Cardinality(S) + 1) : n \notin S

RemoveAt(s, i) == SubSeq(s, 1, i - 1) \o SubSeq(s, i + 1, Len(s))

\* ---------------------------------------------------------------- parsing
nicePosition(best) ==
  IF best \in {"left", "right", "center"} THEN best ELSE "center"

autoBucketForCount(count) ==
  IF count <= 0 THEN "c0"
  ELSE IF count = 1 THEN "c1"
  ELSE IF count = 2 THEN "c2"
  ELSE "c3plus"

\* A plausible slip: the key leaves the position out.
autoKeyCountOnly(count, best) == <<autoBucketForCount(count)>>

autoKey(count, best) ==
  IF autoBucketForCount(count) = "c0"
    THEN <<autoBucketForCount(count)>>
    ELSE <<autoBucketForCount(count), nicePosition(best)>>

\* doDetect: changed = lastAutoKey === null || key !== lastAutoKey
Changed(key) == lastAutoKey = <<>> \/ key # lastAutoKey

\* ---------------------------------------------------------------- speech
UtterIds == {utter[i].id : i \in DOMAIN utter}

\* The promise speakQueued returned for utterance u has resolved (0: the
\* initial Promise.resolve()).
Ended(u) == u \notin UtterIds

NewU ==
  FreshId(UtterIds \cup {speechChain} \cup {utter[i].parent : i \in DOMAIN utter}
            \cup {procs[i].u : i \in DOMAIN procs})

\* A plausible slip: the new promise is returned but speechChain keeps the old one.
speakQueuedNoStore(text) ==
  /\ utter' = Append(utter, [id |-> NewU, parent |-> speechChain, st |-> "queued"])
  /\ speechChain' = speechChain

\* speechChain = speechChain.then(() => speakOnce(text)).catch(() => {})
speakQueued(text) ==
  /\ utter' = Append(utter, [id |-> NewU, parent |-> speechChain, st |-> "queued"])
  /\ speechChain' = NewU

NoSpeech == UNCHANGED <<utter, speechChain>>

\* ---------------------------------------------------------------- processes
\* kind: "manual" / "auto" (doDetect), "vi" (doDetailedVI), "enter", "exit".
\* pc, the await the function is suspended at:
\*   "gum"    ensureCamera: getUserMedia
\*   "meta"   ensureCamera: the loadedmetadata promise
\*   "camOk"  await ensureCamera(), settled
\*   "say0"   doDetailedVI: await speakQueued("Detailed analysis. ...")
\*   "infer"  await captureFrameBlob() and await inferWithEyePop(...)
\*   "sayEnd" doDetect / doDetailedVI: the last await speakQueued(...)
\*   "sayOn"  enterAutoRepeat: await speakQueued("Auto-repeat mode on. ...")
\*   "sayOff" exitAutoRepeat: await speakQueued("Auto-repeat mode off.")
\* u: the utterance awaited.  handler: video.onloadedmetadata holds this
\* process's resolver.  first: the first auto cycle started since a reactivation.
NewProc(kind, pc, u) ==
  [kind |-> kind, pc |-> pc, u |-> u, handler |-> FALSE,
   first |-> kind = "auto" /\ reactiv = "armed"]

\* ensureCamera up to its first await
CameraPc == IF stream THEN "camOk" ELSE "gum"

Captures == {i \in DOMAIN procs : procs[i].kind \in {"manual", "auto", "vi"}}

\* A plausible slip: the busy guard is missing.
doDetectNoGuard(ps, auto) ==
  Append(ps, NewProc(IF auto THEN "auto" ELSE "manual", CameraPc, 0))

\* doDetect up to its first await: the processes after the call to it
doDetect(ps, auto) ==
  IF busy THEN ps
  ELSE Append(ps, NewProc(IF auto THEN "auto" ELSE "manual", CameraPc, 0))

\* doDetailedVI up to its first await
doDetailedVI(ps) ==
  IF busy THEN ps ELSE Append(ps, NewProc("vi", CameraPc, 0))

Ready(p) ==
  \/ p.pc = "camOk"
  \/ p.pc \in {"say0", "sayEnd", "sayOn", "sayOff"} /\ Ended(p.u)

Startable(i) == utter[i].st = "queued" /\ Ended(utter[i].parent)

\* No promise reaction is runnable.
MicroIdle ==
  /\ \A i \in DOMAIN procs : ~Ready(procs[i])
  /\ \A i \in DOMAIN utter : ~Startable(i)

\* The event loop takes a new task.
Quiescent == MicroIdle /\ phase \in {"idle", "down"}

\* Utterances queued, and those the running async functions will still enqueue.
Backlog ==
  Len(utter)
    + Cardinality({i \in DOMAIN procs : procs[i].pc \in {"gum", "meta", "camOk", "infer"}})

\* ---------------------------------------------------------------- history
\* The bucket key as the design states it: the count class 0 / 1 / 2 / 3-or-more
\* with the nearest person's position when there is one, or the error sentinel.
CountClass(c) == IF c = 0 THEN "0" ELSE IF c = 1 THEN "1" ELSE IF c = 2 THEN "2" ELSE "3+"
DesignKey(o) ==
  IF ~o.ok THEN <<"error">>
  ELSE IF o.count = 0 THEN <<CountClass(0)>>
  ELSE <<CountClass(o.count), o.position>>

\* last.cyc: "none", or the step ended the inference of an auto cycle ("cycle"),
\* of the first one started since a reactivation ("first").
Step(h, calls) == [h |-> h, calls |-> calls, cyc |-> "none"]
CycleStep(i, h, calls) ==
  [h |-> h, calls |-> calls, cyc |-> IF procs[i].first THEN "first" ELSE "cycle"]
Said(l) == \E n \in DOMAIN l.calls : l.calls[n] = "speakQueued"

\* ---------------------------------------------------------------- doDetect, doDetailedVI
\* The catch block (app.js:288-302, 330-333) and, where no utterance is awaited,
\* the finally block.
Failed(i, h, pre) ==
  LET p == procs[i]
      o == [ok |-> FALSE, count |-> 0, position |-> "null"]
  IN IF p.kind = "auto"
       THEN /\ lastAutoKey' = <<"error">>
            /\ prevKey' = DesignKey(o)
            /\ IF Changed(<<"error">>)
                 THEN /\ speakQueued("autoError")
                      /\ procs' = [procs EXCEPT ![i] = [@ EXCEPT !.pc = "sayEnd", !.u = NewU]]
                      /\ busy' = busy
                      /\ last' = CycleStep(i, h, pre \o <<"speakQueued">>)
                 ELSE /\ NoSpeech
                      /\ procs' = RemoveAt(procs, i)
                      /\ busy' = FALSE
                      /\ last' = CycleStep(i, h, pre)
       ELSE /\ speakQueued(IF p.kind = "vi" THEN "viError" ELSE "error")
            /\ procs' = [procs EXCEPT ![i] = [@ EXCEPT !.pc = "sayEnd", !.u = NewU]]
            /\ last' = Step(h, pre \o <<"speakQueued">>)
            /\ UNCHANGED <<lastAutoKey, prevKey, busy>>

\* The code behind `await inferWithEyePop(...)` (app.js:268-287, 324-329).
Inferred(i, o, h, pre) ==
  LET p == procs[i]
      key == autoKey(o.count, o.position)
  IN IF p.kind = "auto"
       THEN /\ lastAutoKey' = key
            /\ prevKey' = DesignKey(o)
            /\ IF Changed(key)
                 THEN /\ speakQueued("result")
                      /\ procs' = [procs EXCEPT ![i] = [@ EXCEPT !.pc = "sayEnd", !.u = NewU]]
                      /\ busy' = busy
                      /\ last' = CycleStep(i, h, pre \o <<"speakQueued">>)
                 ELSE /\ NoSpeech
                      /\ procs' = RemoveAt(procs, i)
                      /\ busy' = FALSE
                      /\ last' = CycleStep(i, h, pre)
       ELSE /\ speakQueued(IF p.kind = "vi" THEN "detailed" ELSE "result")
            /\ procs' = [procs EXCEPT ![i] = [@ EXCEPT !.pc = "sayEnd", !.u = NewU]]
            /\ last' = Step(h, pre \o <<"speakQueued">>)
            /\ UNCHANGED <<lastAutoKey, prevKey, busy>>

\* captureFrameBlob: throws when the video has no dimensions yet, else the
\* function waits for the blob and then for the server.
Capture(i, h, pre) ==
  IF videoReady
    THEN /\ procs' = [procs EXCEPT ![i] = [@ EXCEPT !.pc = "infer", !.u = 0]]
         /\ last' = Step(h, pre)
         /\ NoSpeech
         /\ UNCHANGED <<lastAutoKey, prevKey, busy>>
    ELSE Failed(i, h, pre)

\* ---------------------------------------------------------------- gestures
\* speakIntroOnce, up to its await
speakIntroOnce ==
  IF introSpoken
    THEN /\ NoSpeech
         /\ UNCHANGED <<introSpoken, introJustPlayed>>
    ELSE /\ introSpoken' = TRUE
         /\ introJustPlayed' = TRUE
         /\ speakQueued("intro")

startLongPress ==
  LET t == FreshId(longLive \ {longPressTimer})
  IN /\ longLive' = (longLive \ {longPressTimer}) \cup {t}
     /\ longPressTimer' = t
     /\ longPressTriggered' = FALSE

cancelLongPress ==
  /\ longLive' = longLive \ {longPressTimer}
  /\ longPressTimer' = 0

camVars == <<stream, videoReady, metaDue>>
autoVars == <<autoRepeatOn, autoTimer, autoLive>>
cycleVars == <<lastAutoKey, prevKey, reactiv>>

\* pointerdown
PointerDown ==
  /\ UNCHANGED serverVars
  /\ Quiescent
  /\ phase = "idle"
  /\ Backlog < MaxBacklog
  /\ Cardinality(autoLive) < MaxIntervals
  /\ phase' = "down"
  /\ pressLP' = FALSE
  /\ presses' = IF presses < 3 THEN presses + 1 ELSE presses
  /\ speakIntroOnce
  /\ startLongPress
  /\ last' = Step("pointerdown", IF introSpoken THEN <<>> ELSE <<"speakQueued">>)
  /\ UNCHANGED <<clickTimer, tapLive, clickRun, busy, procs, camVars, autoVars, cycleVars>>

\* pointerup: the press ends on the control, a click follows
PointerUp ==
  /\ UNCHANGED serverVars
  /\ Quiescent
  /\ phase = "down"
  /\ phase' = "clickdue"
  /\ cancelLongPress
  /\ last' = Step("pointerup", <<>>)
  /\ UNCHANGED <<longPressTriggered, introSpoken, introJustPlayed, clickTimer, tapLive,
                 clickRun, pressLP, presses, busy, procs, utter, speechChain, camVars, autoVars,
                 cycleVars>>

\* pointercancel / pointerleave: the press ends without a click
PointerLeave ==
  /\ UNCHANGED serverVars
  /\ Quiescent
  /\ phase = "down"
  /\ phase' = "idle"
  /\ pressLP' = FALSE
  /\ presses' = presses
  /\ cancelLongPress
  /\ last' = Step("pointerleave", <<>>)
  /\ UNCHANGED <<longPressTriggered, introSpoken, introJustPlayed, clickTimer, tapLive,
                 clickRun, busy, procs, utter, speechChain, camVars, autoVars,
                 cycleVars>>

\* A plausible slip: the callback does not mark the press as consumed.
longPressCallbackNoFlag ==
  /\ longPressTriggered' = longPressTriggered
  /\ procs' = doDetailedVI(procs)
  /\ busy' = TRUE

\* The callback startLongPress hands to setTimeout (app.js:382-385)
longPressCallback ==
  /\ longPressTriggered' = TRUE
  /\ procs' = doDetailedVI(procs)
  /\ busy' = TRUE

\* The long-press timeout expires.  650 ms after the press began no pending-tap
\* timeout set before it (260 ms) is left.
LongPressFire(t) ==
  /\ UNCHANGED serverVars
  /\ Quiescent
  /\ t \in longLive
  /\ tapLive = {}
  /\ longLive' = longLive \ {t}
  /\ pressLP' = TRUE
  /\ presses' = presses
  /\ longPressCallback
  /\ last' = Step("longpress", <<"doDetailedVI">>)
  /\ UNCHANGED <<longPressTimer, introSpoken, introJustPlayed, clickTimer, tapLive, phase,
                 clickRun, utter, speechChain, camVars, autoVars, cycleVars>>

\* A plausible slip: the pending timeout is not cleared before the next is set.
armClickTimerNoClear ==
  LET t == FreshId(tapLive)
  IN /\ tapLive' = tapLive \cup {t}
     /\ clickTimer' = t

\* click: if (clickTimer) clearTimeout(clickTimer); clickTimer = setTimeout(...)
armClickTimer ==
  LET t == FreshId(tapLive \ {clickTimer})
  IN /\ tapLive' = (tapLive \ {clickTimer}) \cup {t}
     /\ clickTimer' = t

\* click
Click ==
  /\ UNCHANGED serverVars
  /\ MicroIdle
  /\ phase = "clickdue"
  /\ phase' = IF clickRun = 1 THEN "dbldue" ELSE "idle"
  /\ clickRun' = 1 - clickRun
  /\ IF longPressTriggered
       THEN /\ longPressTriggered' = FALSE
            /\ last' = Step("click", <<>>)
            /\ UNCHANGED <<introJustPlayed, clickTimer, tapLive>>
       ELSE IF introJustPlayed
         THEN /\ introJustPlayed' = FALSE
              /\ last' = Step("click", <<>>)
              /\ UNCHANGED <<longPressTriggered, clickTimer, tapLive>>
         ELSE /\ armClickTimer
              /\ last' = Step("click", <<"setTimeout">>)
              /\ UNCHANGED <<longPressTriggered, introJustPlayed>>
  /\ UNCHANGED <<longPressTimer, longLive, introSpoken, pressLP, presses, busy, procs, utter,
                 speechChain, camVars, autoVars, cycleVars>>

\* enterAutoRepeat up to its first await (toggleAutoRepeat found autoRepeatOn false)
enterAutoRepeat ==
  /\ autoRepeatOn' = TRUE
  /\ lastAutoKey' = <<>>
  /\ procs' = Append(procs, NewProc("enter", CameraPc, 0))
  /\ prevKey' = <<>>
  /\ reactiv' = IF reactiv = "off" THEN "armed" ELSE reactiv
  /\ NoSpeech
  /\ UNCHANGED <<autoTimer, autoLive>>

\* exitAutoRepeat up to its await (toggleAutoRepeat found autoRepeatOn true)
exitAutoRepeat ==
  /\ autoRepeatOn' = FALSE
  /\ autoLive' = autoLive \ {autoTimer}
  /\ autoTimer' = 0
  /\ speakQueued("off")
  /\ procs' = Append(procs, NewProc("exit", "sayOff", NewU))
  /\ reactiv' = "off"
  /\ UNCHANGED <<lastAutoKey, prevKey>>

toggleAutoRepeat == IF autoRepeatOn THEN exitAutoRepeat ELSE enterAutoRepeat

\* dblclick
DblClick ==
  /\ UNCHANGED serverVars
  /\ MicroIdle
  /\ phase = "dbldue"
  /\ phase' = "idle"
  /\ IF ~introSpoken
       THEN /\ last' = Step("dblclick", <<>>)
            /\ UNCHANGED <<clickTimer, tapLive, procs, utter, speechChain, autoVars,
                           lastAutoKey, prevKey, reactiv>>
       ELSE /\ tapLive' = tapLive \ {clickTimer}
            /\ clickTimer' = 0
            /\ toggleAutoRepeat
            /\ last' = Step("dblclick", IF clickTimer # 0
                                           THEN <<"clearTimeout", "toggleAutoRepeat">>
                                           ELSE <<"toggleAutoRepeat">>)
  /\ UNCHANGED <<longPressTimer, longLive, longPressTriggered, introSpoken, introJustPlayed,
                 clickRun, pressLP, presses, busy, camVars>>

\* The browser's double-click interval ends; it is longer than the page's 260 ms.
ClickRunExpire ==
  /\ Quiescent
  /\ clickRun = 1
  /\ tapLive = {}
  /\ clickRun' = 0
  /\ last' = Step("expire", <<>>)
  /\ UNCHANGED <<serverVars, stream, busy, autoRepeatOn, autoTimer, clickTimer,
                 longPressTimer, longPressTriggered, lastAutoKey, introSpoken,
                 introJustPlayed, speechChain, autoLive, tapLive, longLive, utter, procs,
                 videoReady, metaDue, phase, pressLP, presses, prevKey, reactiv>>

\* A plausible slip: the callback does not look at autoRepeatOn.
clickTimerCallbackNoReminder ==
  /\ clickTimer' = 0
  /\ procs' = doDetect(procs, FALSE)
  /\ busy' = TRUE
  /\ NoSpeech
  /\ last' = Step("taptimer", <<"doDetect">>)

\* The callback the click handler hands to setTimeout (app.js:418-426)
clickTimerCallback ==
  /\ clickTimer' = 0
  /\ IF ~autoRepeatOn
       THEN /\ procs' = doDetect(procs, FALSE)
            /\ busy' = TRUE
            /\ NoSpeech
            /\ last' = Step("taptimer", <<"doDetect">>)
       ELSE /\ speakQueued("reminder")
            /\ last' = Step("taptimer", <<"speakQueued">>)
            /\ UNCHANGED <<procs, busy>>

\* The pending-tap timeout expires.
TapTimerFire(t) ==
  /\ UNCHANGED serverVars
  /\ Quiescent
  /\ t \in tapLive
  /\ tapLive' = tapLive \ {t}
  /\ clickTimerCallback
  /\ UNCHANGED <<longPressTimer, longLive, longPressTriggered, introSpoken, introJustPlayed,
                 phase, clickRun, pressLP, presses, camVars, autoVars, cycleVars>>

\* The interval callback (app.js:353-356)
Tick(t) ==
  /\ UNCHANGED serverVars
  /\ Quiescent
  /\ t \in autoLive
  /\ Backlog < MaxBacklog
  /\ IF ~autoRepeatOn
       THEN /\ last' = Step("tick", <<>>)
            /\ UNCHANGED <<procs, busy, reactiv>>
       ELSE /\ procs' = doDetect(procs, TRUE)
            /\ busy' = TRUE
            /\ reactiv' = IF busy THEN reactiv ELSE "none"
            /\ last' = Step("tick", <<"doDetect">>)
  /\ UNCHANGED <<clickTimer, longPressTimer, longPressTriggered, introSpoken,
                 introJustPlayed, tapLive, longLive, phase, clickRun, pressLP, presses, utter,
                 speechChain, camVars, autoVars, lastAutoKey, prevKey>>

\* ---------------------------------------------------------------- camera
\* getUserMedia settles for process i.  On success ensureCamera goes on to
\* `stream = ...; video.srcObject = stream; video.onloadedmetadata = ...`.
GumDone(i) ==
  /\ Quiescent
  /\ i \in DOMAIN procs
  /\ procs[i].pc = "gum"
  /\ \E ok \in BOOLEAN :
       IF ok
         THEN /\ stream' = TRUE
              /\ videoReady' = FALSE
              /\ metaDue' = TRUE
              /\ procs' = [j \in DOMAIN procs |->
                             IF j = i THEN [procs[j] EXCEPT !.pc = "meta", !.handler = TRUE]
                                      ELSE [procs[j] EXCEPT !.handler = FALSE]]
              /\ last' = Step("getUserMedia", <<>>)
              /\ NoSpeech
              /\ UNCHANGED <<lastAutoKey, prevKey, busy>>
         ELSE /\ UNCHANGED camVars
              /\ IF procs[i].kind = "enter"
                   THEN \* enterAutoRepeat rejects; nothing handles it
                        /\ procs' = RemoveAt(procs, i)
                        /\ last' = Step("getUserMedia", <<>>)
                        /\ NoSpeech
                        /\ UNCHANGED <<lastAutoKey, prevKey, busy>>
                   ELSE Failed(i, "getUserMedia", <<>>)
  /\ UNCHANGED <<serverVars, clickTimer, longPressTimer, longPressTriggered, introSpoken,
                 introJustPlayed, tapLive, longLive, phase, clickRun, pressLP, presses, autoVars,
                 reactiv>>

\* The video element fires loadedmetadata.
LoadedMetadata ==
  /\ Quiescent
  /\ metaDue
  /\ metaDue' = FALSE
  /\ videoReady' = TRUE
  /\ procs' = [i \in DOMAIN procs |->
                 IF procs[i].handler /\ procs[i].pc = "meta"
                   THEN [procs[i] EXCEPT !.pc = "camOk", !.handler = FALSE]
                   ELSE procs[i]]
  /\ last' = Step("loadedmetadata", <<>>)
  /\ UNCHANGED <<serverVars, stream, busy, clickTimer, longPressTimer,
                 longPressTriggered, introSpoken, introJustPlayed, tapLive, longLive,
                 phase, clickRun, pressLP, presses, utter, speechChain, autoVars, cycleVars>>

\* The blob, the upload and the response body have settled for process i.
InferDone(i) ==
  /\ Quiescent
  /\ i \in DOMAIN procs
  /\ procs[i].pc = "infer"
  /\ \E o \in Outcomes :
       IF o.ok THEN Inferred(i, o, "infer", <<>>) ELSE Failed(i, "infer", <<>>)
  /\ UNCHANGED <<serverVars, clickTimer, longPressTimer, longPressTriggered, introSpoken,
                 introJustPlayed, tapLive, longLive, phase, clickRun, pressLP, presses, camVars,
                 autoVars, reactiv>>

\* ---------------------------------------------------------------- continuations
\* Process i resumes behind an await that has settled.
Continue(i) ==
  /\ i \in DOMAIN procs
  /\ Ready(procs[i])
  /\ LET p == procs[i]
     IN CASE p.pc = "camOk" /\ p.kind \in {"manual", "auto"} ->
               /\ Capture(i, "continue", <<"vibrate">>)
               /\ UNCHANGED <<autoVars, reactiv>>
          [] p.pc = "camOk" /\ p.kind = "vi" ->
               /\ speakQueued("hold")
               /\ procs' = [procs EXCEPT ![i] = [@ EXCEPT !.pc = "say0", !.u = NewU]]
               /\ last' = Step("continue", <<"vibrate", "speakQueued">>)
               /\ UNCHANGED <<busy, autoVars, cycleVars>>
          [] p.pc = "camOk" /\ p.kind = "enter" ->
               /\ speakQueued("on")
               /\ procs' = [procs EXCEPT ![i] = [@ EXCEPT !.pc = "sayOn", !.u = NewU]]
               /\ last' = Step("continue", <<"speakQueued">>)
               /\ UNCHANGED <<busy, autoVars, cycleVars>>
          [] p.pc = "say0" ->
               /\ Capture(i, "continue", <<>>)
               /\ UNCHANGED <<autoVars, reactiv>>
          [] p.pc = "sayEnd" ->
               \* vibrate(...), then the finally block
               /\ procs' = RemoveAt(procs, i)
               /\ busy' = FALSE
               /\ last' = Step("continue", <<"vibrate">>)
               /\ NoSpeech
               /\ UNCHANGED <<autoVars, cycleVars>>
          [] p.pc = "sayOn" ->
               \* enterAutoRepeat: vibrate, setInterval, doDetect({auto: true})
               LET t == FreshId(autoLive)
               IN /\ autoTimer' = t
                  /\ autoLive' = autoLive \cup {t}
                  /\ procs' = doDetect(RemoveAt(procs, i), TRUE)
                  /\ busy' = TRUE
                  /\ reactiv' = IF busy THEN reactiv ELSE "none"
                  /\ last' = Step("continue", <<"vibrate", "setInterval", "doDetect">>)
                  /\ NoSpeech
                  /\ UNCHANGED <<autoRepeatOn, lastAutoKey, prevKey>>
          [] p.pc = "sayOff" ->
               /\ procs' = RemoveAt(procs, i)
               /\ last' = Step("continue", <<"vibrate">>)
               /\ NoSpeech
               /\ UNCHANGED <<busy, autoVars, cycleVars>>
  /\ UNCHANGED <<serverVars, clickTimer, longPressTimer, longPressTriggered, introSpoken,
                 introJustPlayed, tapLive, longLive, phase, clickRun, pressLP, presses, camVars>>

\* ---------------------------------------------------------------- speakOnce
\* The reaction chained on the previous promise calls speakOnce: the utterance
\* starts playing, or the constructor or speak() throws and the promise resolves
\* at once.
UtterStart(i) ==
  /\ i \in DOMAIN utter
  /\ Startable(i)
  /\ \E threw \in BOOLEAN :
       IF threw
         THEN /\ utter' = RemoveAt(utter, i)
              /\ last' = Step("speakOnce", <<"throw">>)
         ELSE /\ utter' = [utter EXCEPT ![i] = [@ EXCEPT !.st = "playing"]]
              /\ last' = Step("speakOnce", <<"speak">>)
  /\ UNCHANGED <<serverVars, stream, busy, autoRepeatOn, autoTimer, clickTimer,
                 longPressTimer, longPressTriggered, lastAutoKey, introSpoken,
                 introJustPlayed, speechChain, autoLive, tapLive, longLive, procs,
                 videoReady, metaDue, phase, clickRun, pressLP, presses, prevKey, reactiv>>

\* u.onend or u.onerror
UtterEnd(i) ==
  /\ Quiescent
  /\ i \in DOMAIN utter
  /\ utter[i].st = "playing"
  /\ utter' = RemoveAt(utter, i)
  /\ \E how \in {"onend", "onerror"} : last' = Step(how, <<>>)
  /\ UNCHANGED <<serverVars, stream, busy, autoRepeatOn, autoTimer, clickTimer,
                 longPressTimer, longPressTriggered, lastAutoKey, introSpoken,
                 introJustPlayed, speechChain, autoLive, tapLive, longLive, procs,
                 videoReady, metaDue, phase, clickRun, pressLP, presses, prevKey, reactiv>>

ClientInit ==
  /\ stream = FALSE
  /\ busy = FALSE
  /\ autoRepeatOn = FALSE
  /\ autoTimer = 0
  /\ clickTimer = 0
  /\ longPressTimer = 0
  /\ longPressTriggered = FALSE
  /\ lastAutoKey = <<>>
  /\ introSpoken = FALSE
  /\ introJustPlayed = FALSE
  /\ speechChain = 0
  /\ autoLive = {}
  /\ tapLive = {}
  /\ longLive = {}
  /\ utter = <<>>
  /\ procs = <<>>
  /\ videoReady = FALSE
  /\ metaDue = FALSE
  /\ phase = "idle"
  /\ clickRun = 0
  /\ last = Step("init", <<>>)
  /\ pressLP = FALSE
  /\ presses = 0
  /\ prevKey = <<>>
  /\ reactiv = "none"

ClientNext ==
  \/ PointerDown
  \/ PointerUp
  \/ PointerLeave
  \/ Click
  \/ DblClick
  \/ ClickRunExpire
  \/ \E t \in longLive : LongPressFire(t)
  \/ \E t \in tapLive : TapTimerFire(t)
  \/ \E t \in autoLive : Tick(t)
  \/ \E i \in DOMAIN procs : GumDone(i)
  \/ LoadedMetadata
  \/ \E i \in DOMAIN procs : InferDone(i)
  \/ \E i \in DOMAIN procs : Continue(i)
  \/ \E i \in DOMAIN utter : UtterStart(i)
  \/ \E i \in DOMAIN utter : UtterEnd(i)

\* No helper is being evaluated on its own, no termination signal was received.
NoCall == [fn |-> "none"]
NoShutdown == [runs |-> <<>>, exited |-> FALSE]

Init == ServerInit /\ ClientInit /\ call = NoCall /\ sd = NoShutdown

SpecServer == Init /\ [][ServerNext]_vars

\* Every step but the arrival of a request: promise reactions are run by the
\* event loop, and an upstream call that was made settles.
ServerProgress ==
  \/ \E s \in Sessions, k \in 1..NReq : React(s, k)
  \/ \E k \in 1..NReq : ConnectDone(k)
  \/ \E k \in 1..NReq : ChangePopDone(k)
  \/ \E s \in Sessions, k \in 1..NReq : ProcessDone(s, k)
  \/ \E r \in Reqs : Resume(r)

SpecServerFair == SpecServer /\ WF_vars(ServerProgress)

SpecClient == Init /\ [][ClientNext]_vars

\* Each camera, network and utterance step that is awaited eventually
\* completes, and the event loop runs the continuation of a settled await;
\* the user's gestures cannot hold them back for ever (strong fairness: the
\* steps are taken between tasks, when the event loop is idle).  The browser
\* delivers the click and the dblclick that a release has produced.
SpecClientFair ==
  /\ SpecClient
  /\ SF_vars(Click)
  /\ SF_vars(DblClick)
  /\ SF_vars(\E i \in DOMAIN procs : GumDone(i))
  /\ SF_vars(LoadedMetadata)
  /\ SF_vars(\E i \in DOMAIN procs : InferDone(i))
  /\ SF_vars(\E i \in DOMAIN procs : Continue(i))
  /\ SF_vars(\E i \in DOMAIN utter : UtterStart(i))
  /\ SF_vars(\E i \in DOMAIN utter : UtterEnd(i))

SpecShutdown == Init /\ [][ShutdownNext]_vars

HelperCalls ==
  ReadBestResultCalls \cup DetectCalls \cup LeftCenterRightCalls \cup CascadeCalls

HelperInit == ServerInit /\ ClientInit /\ sd = NoShutdown /\ call \in HelperCalls

HelperNext ==
  \/ ReadFrame
  \/ ReadReturn
  \/ DetectPass
  \/ LeftCenterRight
  \/ RespondDetect
  \/ RespondVI
  \/ CategoryStage
  \/ FallbackStage

SpecHelpers == HelperInit /\ [][HelperNext]_vars

\* ================================================================ claims
\* C1: for each endpoint session, at most one operation passed to its
\* runExclusive function is executing (started and not yet settled) at any time.
C1_OneInFlight ==
  \A s \in Sessions :
    Cardinality({k \in 1..Len(prom[s]) : Executing(prom[s][k])}) <= 1

\* Two requests contend for one session: one operation executes while a later
\* one, already submitted, waits.
C1_Witness ==
  \E s \in Sessions : \E k1, k2 \in 1..Len(prom[s]) :
    /\ k1 < k2
    /\ Executing(prom[s][k1])
    /\ prom[s][k2].st = "pending"

\* C2: operations submitted to the same session start in submission order: an
\* operation that has begun was preceded by the settling of every operation
\* submitted to that session before it.
C2_StartInOrder ==
  \A s \in Sessions : \A k1, k2 \in 1..Len(prom[s]) :
    (k1 < k2 /\ prom[s][k2].began) => Settled(prom[s][k1])

\* Three operations on one session, the first settled by a rejection, the second
\* executing, the third still waiting.
C2_Witness ==
  \E s \in Sessions :
    /\ Len(prom[s]) >= 3
    /\ prom[s][1].st = "rejected"
    /\ Executing(prom[s][2])
    /\ prom[s][3].st = "pending"

\* No request answers 500 with another request's error, and no promise of a
\* chain settles without its own operation having been called.
C3_Safe ==
  /\ \A r \in Reqs : req[r].status = 500 => req[r].err = r
  /\ \A s \in Sessions : \A k \in 1..Len(prom[s]) :
       Settled(prom[s][k]) =>
         /\ prom[s][k].began
         /\ (prom[s][k].st = "rejected" => prom[s][k].err = prom[s][k].req)

\* An operation submitted behind a rejected one is eventually called.
C3_Started ==
  \A s \in Sessions : \A k \in 1..NReq :
    (Len(prom[s]) >= k /\ \E j \in 1..(k - 1) : prom[s][j].st = "rejected")
      ~> (Len(prom[s]) >= k /\ prom[s][k].began)

\* C3: a failed operation's error reaches only the request that submitted it
\* (HTTP 500 carrying that operation's own error); every promise of the chain
\* settles only by running its own operation, and every operation queued behind
\* a failure is eventually started, so its request answers with its own outcome.
C3_FailureIsolated == []C3_Safe /\ C3_Started

\* An operation failed and its request got 500; the operation queued behind it
\* ran and its request got 200.
C3_Witness ==
  \E s \in Sessions : \E k1, k2 \in 1..Len(prom[s]) :
    /\ k1 < k2
    /\ prom[s][k1].st = "rejected"
    /\ req[prom[s][k1].req].status = 500
    /\ prom[s][k2].st = "fulfilled"
    /\ req[prom[s][k2].req].status = 200

\* C4: utterances begin playing in the order they were enqueued, an utterance
\* begins only after every utterance enqueued before it has ended (by onend, by
\* onerror or by a throw in speakOnce), and at most one utterance is playing.
\* utter lists the utterances enqueued and not ended, in enqueue order: speakOnce
\* is only ever called for the head of the list, and only the head is playing.
C4_SpeechInOrder ==
  /\ [](\A j \in DOMAIN utter : utter[j].st = "playing" => j = 1)
  /\ [][last'.h = "speakOnce" =>
          /\ utter[1].st = "queued"
          /\ \/ utter' = Tail(utter)
             \/ utter' = [utter EXCEPT ![1] = [@ EXCEPT !.st = "playing"]]]_vars

\* speakOnce has just started an utterance while a later one waits behind it.
C4_Witness ==
  /\ last.h = "speakOnce"
  /\ last.calls = <<"speak">>
  /\ Len(utter) >= 2
  /\ utter[1].st = "playing"
  /\ utter[2].st = "queued"

\* A capture-and-infer action in flight holds busy, and there is at most one.
C5_Inv ==
  /\ Cardinality(Captures) <= 1
  /\ Captures # {} => busy

\* A tick, an elapsed tap window or a long press that finds busy set starts no
\* process and leaves nothing behind that would start one later.
C5_Drop ==
  (busy /\ last'.h \in {"tick", "taptimer", "longpress"})
    => /\ procs' = procs
       /\ busy' = busy

\* C5: at most one capture-and-infer action (doDetect manual or auto,
\* doDetailedVI) is in flight at any time; an auto-repeat tick, a single tap or
\* a long press arriving while one is outstanding starts no capture and is
\* dropped, not queued.
C5_OneCapture == []C5_Inv /\ [][C5_Drop]_vars

\* An interval tick called doDetect while a capture was waiting for the server:
\* the capture in flight is the old one, no second one was started.
C5_Witness ==
  /\ last.h = "tick"
  /\ last.calls = <<"doDetect">>
  /\ Cardinality(Captures) = 1
  /\ \E i \in Captures : procs[i].pc = "infer"

\* C6: while auto-repeat is on, a completed cycle enqueues an announcement if
\* and only if its bucket key (count class 0 / 1 / 2 / 3-or-more with the
\* nearest person's position when there is one, "error" on failure) differs
\* from the key of the cycle completed just before it, or no cycle has completed
\* since the activation.
C6_AnnounceIffChanged ==
  [][(last'.cyc # "none" /\ autoRepeatOn) =>
       (Said(last') <=> (prevKey = <<>> \/ prevKey' # prevKey))]_vars

\* A cycle saw three or more people on the left, as the cycle before it did, and
\* said nothing.
C6_Witness ==
  /\ last.cyc = "cycle"
  /\ autoRepeatOn
  /\ ~Said(last)
  /\ prevKey = <<"3+", "left">>

\* C7: after a deactivation and a later activation, the result of the first
\* cycle started after that reactivation is announced, for every interleaving
\* with a cycle still in flight at the deactivation or the reactivation.
C7_FirstCycleAnnounced == last.cyc = "first" => Said(last)

\* C8: the long-press timeout expiring calls doDetailedVI while the control is
\* still pressed; the click that the release of that press produces arms no
\* pending-tap timeout, starts nothing, and resets longPressTriggered.
C8_LongPress ==
  [][/\ last'.h = "longpress" =>
          /\ phase = "down" /\ phase' = "down"
          /\ last'.calls = <<"doDetailedVI">>
          /\ ~busy => /\ Len(procs') = Len(procs) + 1
                      /\ procs'[Len(procs')].kind = "vi"
     /\ (last'.h = "click" /\ pressLP) =>
          /\ longPressTriggered /\ ~longPressTriggered'
          /\ last'.calls = <<>>
          /\ UNCHANGED <<tapLive, clickTimer, procs, utter, autoRepeatOn>>]_vars

\* The press was held past the timeout, doDetailedVI started, and the click of
\* the release has been handled: no tap window is pending and the flag is reset.
C8_Witness ==
  /\ last.h = "click"
  /\ pressLP
  /\ ~longPressTriggered
  /\ tapLive = {}
  /\ \E i \in DOMAIN procs : procs[i].kind = "vi"

\* C9: at most one pending-tap timeout exists, so a second click inside the
\* window of the first replaces it; the dblclick that follows clears it, calls
\* toggleAutoRepeat once (autoRepeatOn flips, enterAutoRepeat or exitAutoRepeat
\* starts) and starts no capture, so the single-tap action fires for neither
\* click.
C9_DoubleTap ==
  /\ [](Cardinality(tapLive) <= 1)
  /\ [][(last'.h = "dblclick" /\ introSpoken) =>
          /\ tapLive' = {}
          /\ clickTimer' = 0
          /\ last'.calls \in {<<"toggleAutoRepeat">>, <<"clearTimeout", "toggleAutoRepeat">>}
          /\ autoRepeatOn' = ~autoRepeatOn
          /\ Len(procs') = Len(procs) + 1
          /\ SubSeq(procs', 1, Len(procs)) = procs
          /\ procs'[Len(procs')].kind = IF autoRepeatOn THEN "exit" ELSE "enter"
          /\ busy' = busy]_vars

\* The dblclick cleared the window armed by the second click and switched
\* auto-repeat on.
C9_Witness ==
  /\ last.h = "dblclick"
  /\ last.calls = <<"clearTimeout", "toggleAutoRepeat">>
  /\ autoRepeatOn
  /\ tapLive = {}
  /\ clickTimer = 0

\* C10: the pending-tap timeout expiring does exactly one thing: with
\* auto-repeat off it calls doDetect (which starts a manual capture unless one
\* is in flight) and enqueues nothing; with auto-repeat on it enqueues the
\* reminder and starts no capture.
C10_WindowElapsed ==
  [][last'.h = "taptimer" =>
       /\ clickTimer' = 0
       /\ tapLive' = {}
       /\ IF autoRepeatOn
            THEN /\ last'.calls = <<"speakQueued">>
                 /\ Len(utter') = Len(utter) + 1
                 /\ SubSeq(utter', 1, Len(utter)) = utter
                 /\ procs' = procs
                 /\ busy' = busy
            ELSE /\ last'.calls = <<"doDetect">>
                 /\ utter' = utter
                 /\ busy'
                 /\ IF busy THEN procs' = procs
                            ELSE /\ Len(procs') = Len(procs) + 1
                                 /\ SubSeq(procs', 1, Len(procs)) = procs
                                 /\ procs'[Len(procs')].kind = "manual"]_vars

\* The window elapsed while auto-repeat was on: the reminder is queued, no
\* capture is in flight.
C10_Witness ==
  /\ last.h = "taptimer"
  /\ last.calls = <<"speakQueued">>
  /\ autoRepeatOn
  /\ Captures = {}
  /\ Len(utter) >= 1

\* C11: for every finite stream of frames readBestResult returns the first
\* frame whose object count (0 for a frame without an objects list) equals the
\* largest count in the stream, and null for the empty stream.
C11_FirstOfLargest ==
  (call.fn = "readBestResult" /\ call.returned) =>
    LET fs == call.frames
        Count(k) == IF fs[k].objects.defined THEN fs[k].objects.length ELSE 0
    IN IF fs = <<>>
         THEN call.best = NullFrame
         ELSE \E k \in DOMAIN fs :
                /\ call.best = fs[k]
                /\ \A j \in DOMAIN fs : Count(j) <= Count(k)
                /\ \A j \in 1..(k - 1) : Count(j) < Count(k)

\* A stream whose largest count occurs twice, and a frame without an objects
\* list in it: the earlier of the two was returned.
C11_Witness ==
  /\ call.fn = "readBestResult"
  /\ call.returned
  /\ \E k \in DOMAIN call.frames :
       /\ k > call.best.id
       /\ call.frames[k].objects = call.best.objects
       /\ call.best.objects.length > 0
  /\ \E k \in DOMAIN call.frames : ~call.frames[k].objects.defined

\* The label is "person" up to case; up to case and surrounding whitespace.
CaseInsensitivePerson(l) == l.defined /\ toLowerCase(l.chars) = Person
TrimmedCaseInsensitivePerson(l) == l.defined /\ toLowerCase(trim(l.chars)) = Person

\* The people list holds exactly the objects that IsPerson accepts and whose
\* confidence is at least 0.35, each at the rank its score gives it: behind the
\* objects of larger score and behind the earlier objects of equal score.
PeopleAre(IsPerson(_)) ==
  (call.fn = "detect" /\ call.stage # "best") =>
    LET os == objectsOf(call.best)
        K == {i \in DOMAIN os :
                IsPerson(os[i].classLabel) /\ os[i].confidence.v >= MinConfidence}
        Score(i) == (os[i].width.v * os[i].height.v) * os[i].confidence.v
        Rank(i) ==
          1 + Cardinality({j \in K : \/ Score(j) > Score(i)
                                     \/ Score(j) = Score(i) /\ j < i})
    IN /\ Len(call.people) = Cardinality(K)
       /\ \A i \in K :
            /\ call.people[Rank(i)].confidence = os[i].confidence.v
            /\ call.people[Rank(i)].x = os[i].x.v
            /\ call.people[Rank(i)].y = os[i].y.v
            /\ call.people[Rank(i)].width = os[i].width.v
            /\ call.people[Rank(i)].height = os[i].height.v

\* C12, as stated: the people list holds exactly the objects whose label equals
\* "person" case-insensitively and whose confidence is at least 0.35, ordered by
\* width x height x confidence descending, equal scores in order of occurrence;
\* an empty or null best frame gives the empty list.
C12_AsStated == PeopleAre(CaseInsensitivePerson)

\* C12, amended: the same with the label compared after surrounding whitespace
\* is removed (labelLower trims before it lowers the case).
C12_PeopleRanked == PeopleAre(TrimmedCaseInsensitivePerson)

\* Three objects, one of them rejected, the two kept ones of equal score and in
\* their order of occurrence.
C12_Witness ==
  /\ call.fn = "detect"
  /\ call.stage # "best"
  /\ Len(objectsOf(call.best)) = 3
  /\ Len(call.people) = 2
  /\ scorePerson(call.people[1]) = scorePerson(call.people[2])
  /\ call.people[1].confidence > call.people[2].confidence
  /\ call.people[1].x = objectsOf(call.best)[1].x.v
  /\ call.people[2].x = objectsOf(call.best)[3].x.v

\* c2 / (2 W) < a / b, for W # 0 and b > 0, with c2 = 2x + w twice the centre.
FracBelow(c2, W, a, b) == IF W > 0 THEN b * c2 < (2 * a) * W ELSE b * c2 > (2 * a) * W
FracAbove(c2, W, a, b) == IF W > 0 THEN b * c2 > (2 * a) * W ELSE b * c2 < (2 * a) * W

\* C13: with frac = (x + width / 2) / sourceWidth the position is left exactly
\* when frac < 0.4, right exactly when frac > 0.6 and center otherwise (so at 0.4
\* and at 0.6); it is center when sourceWidth is missing, non-numeric or zero.
\* A missing or non-numeric x or width counts as 0.
C13_Position ==
  (call.fn = "leftCenterRight" /\ call.returned) =>
    LET sw == call.sourceWidth
        c2 == 2 * (IF call.obj.x.num THEN call.obj.x.v ELSE 0)
                + (IF call.obj.width.num THEN call.obj.width.v ELSE 0)
    IN IF ~sw.num \/ sw.v = 0
         THEN call.position = "center"
         ELSE /\ call.position = "left" <=> FracBelow(c2, sw.v, 2, 5)
              /\ call.position = "right" <=> FracAbove(c2, sw.v, 3, 5)
              /\ call.position \in {"left", "center", "right"}

\* The centre is at exactly 0.4 of the source width: center.
C13_Witness ==
  /\ call.fn = "leftCenterRight"
  /\ call.returned
  /\ call.sourceWidth = Num(MaxPixel)
  /\ call.obj.x.num /\ call.obj.width.num
  /\ 5 * (2 * call.obj.x.v + call.obj.width.v) = 4 * MaxPixel
  /\ call.position = "center"

Finished(a) == a \in {"ok", "failed"}

\* C14: on a termination signal a disconnect is attempted on every session
\* established by then; a failed disconnect of the detect session does not
\* prevent the attempt on the VI session; and the process exits only after the
\* exiting invocation's attempts have finished.
C14_Shutdown ==
  \A i \in 1..Len(sd.runs) :
    LET run == sd.runs[i]
    IN /\ run.detect # "none"
       /\ (run.pc \in {"vi", "done"} /\ run.viAtSignal) => run.vi \in {"pending", "ok", "failed"}
       /\ run.pc = "done" => /\ Finished(run.detect)
                             /\ run.viAtSignal => Finished(run.vi)
                             /\ run.vi = "skipped" => viEndpoint = "null"
       /\ (sd.exited => \E j \in 1..Len(sd.runs) : sd.runs[j].pc = "done")

\* The process has exited after a failed detect disconnect and a finished
\* disconnect attempt on the VI session.
C14_Witness ==
  /\ sd.exited
  /\ \E i \in 1..Len(sd.runs) :
       /\ sd.runs[i].pc = "done"
       /\ sd.runs[i].detect = "failed"
       /\ sd.runs[i].viAtSignal
       /\ Finished(sd.runs[i].vi)

SameDetection(a, b) ==
  /\ a.confidence = b.confidence
  /\ a.x = b.x /\ a.y = b.y /\ a.width = b.width /\ a.height = b.height
  /\ a.position = b.position

NothingAttached(a) ==
  /\ a.gender = "null" /\ a.genderConfidence = 0
  /\ a.activity = "null" /\ a.activityConfidence = 0

\* C15: in a mode=vi response the extracted gender and activity and their
\* confidences are written only to the person at index 0; every other person,
\* the order and the number of people are those of the request's own detect
\* pass, with gender and activity null; in a mode=detect response every person
\* has gender and activity null.
C15_AttachedToFirstOnly ==
  (call.fn = "detect" /\ call.stage = "response") =>
    /\ Len(call.out) = Len(call.people)
    /\ \A i \in 1..Len(call.out) :
         /\ SameDetection(call.out[i], call.people[i])
         /\ IF call.mode = "vi" /\ i = 1
              THEN /\ call.out[i].gender = call.findings.gender
                   /\ call.out[i].activity = call.findings.activity
                   /\ call.out[i].genderConfidence =
                        (IF call.findings.genderConfidence.num
                           THEN call.findings.genderConfidence.v ELSE 0)
                   /\ call.out[i].activityConfidence =
                        (IF call.findings.activityConfidence.num
                           THEN call.findings.activityConfidence.v ELSE 0)
              ELSE NothingAttached(call.out[i])

\* Two people in a mode=vi response: the first carries the findings, the
\* second carries none.
C15_Witness ==
  /\ call.fn = "detect"
  /\ call.stage = "response"
  /\ call.mode = "vi"
  /\ Len(call.out) = 2
  /\ call.out[1].gender = "female"
  /\ call.out[1].activityConfidence = 80
  /\ call.out[2].gender = "null"

\* C16: a request that carries no file is answered with HTTP 400 in the step
\* in which it arrives and submits no operation to the detect session or the
\* VI session, then or later: it neither waits behind nor delays the
\* operations of other requests.
C16_NoFileNoOperation ==
  [][\A r \in Reqs :
       /\ (req[r].pc = "new" /\ req'[r].pc # "new" /\ ~req'[r].file) =>
            /\ req'[r].pc = "done"
            /\ req'[r].status = 400
            /\ prom' = prom
            /\ queue' = queue
       /\ ~req'[r].file =>
            \A s \in Sessions : \A k \in 1..Len(prom'[s]) : prom'[s][k].req # r
       /\ req'[r].status = 400 => ~req'[r].file]_vars

\* A request without a file has its 400 while the detect operation of a
\* request that arrived before it is still executing.
C16_Witness ==
  \E r \in Reqs, k \in 1..Len(prom["detect"]) :
    /\ ~req[r].file
    /\ req[r].status = 400
    /\ prom["detect"][k].req < r
    /\ Executing(prom["detect"][k])

\* C17: every haptic pattern fires when the action requests it, without
\* waiting on the speech chain: no function holds back the pattern that
\* accompanies its announcement until that announcement's utterance, or an
\* earlier queued one, has finished.  At "sayEnd", "sayOn" and "sayOff" the
\* next statement of the function is the vibrate call of the announcement
\* just enqueued.
C17_HapticsNotBehindSpeech ==
  \A i \in DOMAIN procs :
    procs[i].pc \in {"sayEnd", "sayOn", "sayOff"} => Ended(procs[i].u)

\* C18: the introduction is enqueued exactly once, on the first press; the
\* click of that first gesture is the one tap suppressed on its account; every
\* later click that is not suppressed by a long-press of its own gesture arms
\* the pending-tap window, whatever the first gesture was (a tap, a long-press,
\* or a press that left the control without a click).
C18_OneTapSuppressed ==
  [][/\ last'.h = "pointerdown" => (Said(last') <=> presses = 0)
     /\ (last'.h = "click" /\ ~pressLP /\ presses = 1) =>
          /\ last'.calls = <<>>
          /\ UNCHANGED <<clickTimer, tapLive>>
     /\ (last'.h = "click" /\ ~pressLP /\ presses >= 2) =>
          /\ last'.calls = <<"setTimeout">>
          /\ clickTimer' # 0
          /\ clickTimer' \in tapLive']_vars

\* C19: a double-tap toggles auto-repeat only when the introduction has already
\* been spoken: the double-tap whose first press is the press that triggers the
\* introduction (it ends with the second press of the session) leaves the
\* auto-repeat flag and the interval timer unchanged.
C19_FirstDoubleTapIgnored ==
  [][(last'.h = "dblclick" /\ presses = 2) =>
        /\ UNCHANGED <<autoRepeatOn, autoTimer>>
        /\ last'.calls = <<>>]_vars

AutoCycles(ps) == Cardinality({i \in DOMAIN ps : ps[i].kind = "auto"})

\* C20: once auto-repeat has been deactivated, no auto capture-and-detect cycle
\* is started until it is activated again, for every interleaving of double-taps
\* with the asynchronous steps of the activation (the camera setup and the
\* spoken confirmation): a step that starts an auto cycle finds auto-repeat on.
C20_NoCycleWhileOff ==
  [][AutoCycles(procs') > AutoCycles(procs) => autoRepeatOn]_vars

\* C21: in every reachable state at most one periodic auto-repeat timer is
\* armed, and none is armed while auto-repeat is inactive, for any sequence of
\* double-taps, including ones that arrive while an activation is in progress.
C21_AtMostOneTimer ==
  /\ Cardinality(autoLive) <= 1
  /\ ~autoRepeatOn => autoLive = {}

\* C22: every inference operation run on the VI session runs on a session to
\* which VI_POP has been pushed successfully: connectVI returns a session only
\* in that case, also when an earlier connectVI call failed part-way.
C22_ConfiguredBeforeUse ==
  \A k \in 1..Len(prom["vi"]) : prom["vi"][k].st = "process" => viConfigured

\* C23: for each profile the connection setup is performed at most once after
\* it has succeeded, for every interleaving of concurrent requests: a connect
\* call begins the setup only when no session is cached, a setup never
\* succeeds while a session is cached, and so later calls return the cached
\* session and open no second connection.  The detect session is set up once,
\* before the server listens, and its operations only ever use the cached one.
C23_ConnectOnce ==
  [][/\ \A k \in 1..Len(prom["vi"]) :
          /\ (prom["vi"][k].st # "connect" /\ prom'["vi"][k].st = "connect") =>
               viEndpoint = "null"
          /\ (prom["vi"][k].st = "connect" /\ prom'["vi"][k].st = "changePop") =>
               viEndpoint = "null" /\ viEndpoint' = "set"
          /\ viEndpoint = "set" => viEndpoint' = "set"
     /\ \A k \in 1..Len(prom["detect"]) : prom'["detect"][k].st # "connect"]_vars

\* Two VI operations queued one behind the other have both run: the first set
\* the session up, the second got the cached one.
C23_Witness ==
  \E k1, k2 \in 1..Len(prom["vi"]) :
    /\ prom["vi"][k2].parent = k1
    /\ prom["vi"][k1].st = "fulfilled"
    /\ prom["vi"][k2].st = "process"
    /\ viEndpoint = "set"

\* C24: the two sessions do not block each other: an operation submitted to a
\* session can start as soon as the operations submitted to that session before
\* it have settled, whatever is in flight on the other session; and within one
\* mode=vi request the VI operation is submitted only after that request's
\* detect operation has succeeded.
C24_SessionsIndependent ==
  /\ \A s \in Sessions : \A k \in 1..Len(prom[s]) :
       (/\ prom[s][k].st = "pending"
        /\ \A j \in 1..(k - 1) : Settled(prom[s][j])) => ENABLED React(s, k)
  /\ \A k \in 1..Len(prom["vi"]) :
       /\ req[prom["vi"][k].req].mode = "vi"
       /\ \E j \in 1..Len(prom["detect"]) :
            /\ prom["detect"][j].req = prom["vi"][k].req
            /\ prom["detect"][j].st = "fulfilled"

\* The detect operation of a later request is executing while the VI operation
\* of an earlier request is in flight, and a VI operation is executing while
\* the detect operation of another request is.
C24_Witness ==
  \E kd \in 1..Len(prom["detect"]), kv \in 1..Len(prom["vi"]) :
    /\ Executing(prom["detect"][kd])
    /\ Executing(prom["vi"][kv])
    /\ prom["detect"][kd].req > prom["vi"][kv].req

\* The value of the earliest of the first n stages that resolved the attribute.
EarliestGender(n) ==
  IF \E k \in 1..n : call.results[k].gender # "null"
    THEN call.results[CHOOSE k \in 1..n :
                        /\ call.results[k].gender # "null"
                        /\ \A j \in 1..(k - 1) : call.results[j].gender = "null"].gender
    ELSE "null"

EarliestActivity(n) ==
  IF \E k \in 1..n : call.results[k].activity # "null"
    THEN call.results[CHOOSE k \in 1..n :
                        /\ call.results[k].activity # "null"
                        /\ \A j \in 1..(k - 1) : call.results[j].activity = "null"].activity
    ELSE "null"

\* C25: in the attribute cascade a value resolved by an earlier stage is never
\* replaced by a later one: the label-text fallback and then the all-strings
\* fallback only fill an attribute that is still null, and after each stage
\* gender and activity are the values of the earliest stage so far that
\* resolved them, or null if none did.
C25_EarliestStageWins ==
  (call.fn = "cascade" /\ call.stage >= 1) =>
    /\ call.genderVal = EarliestGender(call.stage)
    /\ call.activityVal = EarliestActivity(call.stage)

\* The category stage resolved the gender only; the label text offers another
\* gender and an activity; the last stage offers yet another activity.
C25_Witness ==
  /\ call.fn = "cascade"
  /\ call.stage = 3
  /\ call.results[1] = [gender |-> "female", activity |-> "null"]
  /\ call.results[2] = [gender |-> "male", activity |-> "walking"]
  /\ call.results[3].activity = "other"
  /\ call.genderVal = "female"
  /\ call.activityVal = "walking"

\* C26: every capture action that sets the busy flag eventually clears it, on
\* the success path and on every error path, provided each camera, network and
\* utterance step eventually completes: busy is never left set for ever.
C26_BusyCleared == busy ~> ~busy
=============================================================================
